---- MODULE Spec2Model ----
(***************************************************************************)
(* Model of src/src/utils/notificationService.js: the notification facade  *)
(* (getNotifications and its siblings, checkFirstTimeUser), the            *)
(* NotificationManager singleton (startRealTime / stopRealTime /           *)
(* addListener / notifyListeners and the setInterval callback), and        *)
(* parseBulkEmails with isValidEmail and isAllowedDomain.                  *)
(*                                                                         *)
(* JavaScript values are records tagged by their type in field t.          *)
(* JavaScript strings that the code inspects character by character are    *)
(* sequences of one-character strings.                                     *)
(***************************************************************************)
EXTENDS Integers, Sequences, FiniteSets, TLC

VARIABLES
  listeners,        \* this.listeners: a JS Set, kept in insertion order
  notifications,    \* this.notifications: the cached sequence
  isPolling,        \* this.isPolling
  pollingInterval,  \* this.pollingInterval: 0 is null, else a timer handle
  timers,           \* the host's active setInterval handles
  inflight,         \* polls awaiting getNotifications(), oldest first
  lastOp,           \* history: per callback, its most recent registration op
  lastStart,        \* history: what the last startRealTime() call found
  arrived,          \* history: the last response that reached the callback
  lastGood,         \* history: data of the last successful envelope
  fan,              \* history: the last fan-out: the calls it made and the
                    \* callbacks unregistered while it ran
  call,             \* the last facade call: operation, API outcome, result
  bulk              \* the last parseBulkEmails call: input, allow-list, result

vars == <<listeners, notifications, isPolling, pollingInterval, timers,
          inflight, lastOp, lastStart, arrived, lastGood, fan, call, bulk>>

mgrVars == <<listeners, notifications, isPolling, pollingInterval, timers,
             inflight, lastOp, lastStart, arrived, lastGood, fan>>

(***************************************************************************)
(* Bounds                                                                  *)
(***************************************************************************)
MaxInflight == 2   \* polls that may be awaiting a response at once (Spec)
FanInflight == 1   \* the same, where the listeners act up (FanSpec)
MaxTimers == 2     \* interval handles the host hands out at once
MaxActors == 2     \* listeners per fan-out that do more than return
MaxTokens == 3     \* tokens in a parseBulkEmails input

Callbacks == {"f", "g"}

(***************************************************************************)
(* JavaScript values                                                       *)
(***************************************************************************)
Undefined == [t |-> "undefined"]
Null == [t |-> "null"]
Arr(s) == [t |-> "array", v |-> s]
Obj(d) == [t |-> "object", data |-> d]
Str(s) == [t |-> "string", v |-> s]

\* ToBoolean: undefined, null and "" are falsy; arrays and objects are truthy
Truthy(x) ==
  /\ x.t \notin {"undefined", "null"}
  /\ (x.t = "string" => x.v # "")

\* a || b
Or(a, b) == IF Truthy(a) THEN a ELSE b

\* result?.data
OptData(result) ==
  IF result.t = "object" THEN result.data ELSE Undefined

\* the notifications a backend may list
Welcome == [type |-> "welcome", isWelcome |-> FALSE, read |-> FALSE]
Flagged == [type |-> "task_assigned", isWelcome |-> TRUE, read |-> TRUE]
Plain == [type |-> "task_assigned", isWelcome |-> FALSE, read |-> FALSE]

ApiReturn(r) == [kind |-> "return", value |-> r, message |-> Undefined]
ApiThrow(m) == [kind |-> "throw", value |-> Undefined, message |-> m]

Messages == {Str("Network Error"), Str("401")}

(***************************************************************************)
(* Notification facade                                                     *)
(***************************************************************************)
\* getNotifications: the envelope for one outcome of notifications.getAll
getNotifications(o) ==
  IF o.kind = "return"
    THEN [success |-> TRUE,
          data |-> Or(Or(OptData(o.value), o.value), Arr(<<>>)),
          error |-> Null]
    ELSE [success |-> FALSE, data |-> Arr(<<>>), error |-> o.message]

\* createNotification: its failure envelope has no data property, which
\* reads as undefined
createNotification(o) ==
  IF o.kind = "return"
    THEN [success |-> TRUE, data |-> Or(OptData(o.value), o.value), error |-> Null]
    ELSE [success |-> FALSE, data |-> Undefined, error |-> o.message]

\* markNotificationAsRead
markNotificationAsRead(o) ==
  IF o.kind = "return"
    THEN [success |-> TRUE, data |-> Or(OptData(o.value), o.value), error |-> Null]
    ELSE [success |-> FALSE, data |-> Undefined, error |-> o.message]

\* markAllNotificationsAsRead
markAllNotificationsAsRead(o) ==
  IF o.kind = "return"
    THEN [success |-> TRUE, data |-> Or(OptData(o.value), o.value), error |-> Null]
    ELSE [success |-> FALSE, data |-> Undefined, error |-> o.message]

\* deleteNotification
deleteNotification(o) ==
  IF o.kind = "return"
    THEN [success |-> TRUE, data |-> Or(OptData(o.value), o.value), error |-> Null]
    ELSE [success |-> FALSE, data |-> Undefined, error |-> o.message]

\* getNotificationStats
getNotificationStats(o) ==
  IF o.kind = "return"
    THEN [success |-> TRUE, data |-> Or(OptData(o.value), o.value), error |-> Null]
    ELSE [success |-> FALSE, data |-> Undefined, error |-> o.message]

\* n.type === 'welcome' || n.notification_metadata?.isWelcome
IsWelcome(n) == n.type = "welcome" \/ n.isWelcome

\* checkFirstTimeUser, for one outcome o of the getAll call underneath.
\* Data that is no array has no length 0 and no some(): the TypeError lands
\* in the catch block, which returns false.
checkFirstTimeUser(o) ==
  LET result == getNotifications(o)
      list == Or(result.data, Arr(<<>>))
  IN IF list.t # "array" THEN FALSE
     ELSE IF Len(list.v) = 0 THEN TRUE
     ELSE ~(\E i \in 1..Len(list.v) : IsWelcome(list.v[i]))

(***************************************************************************)
(* NotificationManager                                                     *)
(***************************************************************************)
Range(s) == {s[i] : i \in 1..Len(s)}

IndexOf(s, c) ==
  IF c \in Range(s) THEN CHOOSE i \in 1..Len(s) : s[i] = c ELSE 0

Remove(s, k) == [i \in 1..(Len(s) - 1) |-> IF i < k THEN s[i] ELSE s[i + 1]]

\* Set.prototype.add: appends unless present
SetAddDup(s, c) == Append(s, c)

SetAdd(s, c) == IF c \in Range(s) THEN s ELSE Append(s, c)

\* Set.prototype.delete
SetDelete(s, c) == IF c \in Range(s) THEN Remove(s, IndexOf(s, c)) ELSE s

\* what a listener does when invoked
Noop == [k |-> "noop", x |-> "-"]
Throws == [k |-> "throw", x |-> "-"]
Adds(c) == [k |-> "add", x |-> c]
Dels(c) == [k |-> "del", x |-> c]

Ops == {Noop, Throws} \cup {Adds(c) : c \in Callbacks} \cup {Dels(c) : c \in Callbacks}

\* every listener just returns
Quiet == [c \in Callbacks |-> Noop]

Scripts ==
  {s \in [Callbacks -> Ops] : Cardinality({c \in Callbacks : s[c] # Noop}) <= MaxActors}

\* the scripts that differ on a listener the fan-out over ls can reach: one
\* registered at its start or registered during it by one of those
ScriptsFor(ls) ==
  {s \in Scripts : \A c \in Callbacks :
     s[c] # Noop => (c \in Range(ls) \/ \E d \in Range(ls) : s[d] = Adds(c))}

\* lastOp after addListener(c) on the set ls
OpAfterAdd(ls, c) == IF c \in Range(ls) THEN "readd" ELSE "add"

\* Set.prototype.forEach with the callback of notifyListeners as its body.
\* i is the position of the next entry to visit.  Entries appended during
\* the iteration are visited; an entry deleted at or before i shifts the
\* rest down.  guarded says whether the body's try/catch is there: without
\* it a throwing listener ends the iteration.
RECURSIVE ForEach(_, _, _, _, _, _, _, _)
ForEach(ls, i, notifs, script, guarded, calls, unreg, ops) ==
  IF i > Len(ls)
    THEN [listeners |-> ls, calls |-> calls, unreg |-> unreg, ops |-> ops]
    ELSE
      LET c == ls[i]
          op == script[c]
          hasHandle == op.k = "del" /\ ops[op.x] # "none"
          ls2 == CASE op.k = "add" -> SetAdd(ls, op.x)
                   [] hasHandle -> SetDelete(ls, op.x)
                   [] OTHER -> ls
          ops2 == CASE op.k = "add" -> [ops EXCEPT ![op.x] = OpAfterAdd(ls, op.x)]
                    [] hasHandle -> [ops EXCEPT ![op.x] = "remove"]
                    [] OTHER -> ops
          p == IF hasHandle THEN IndexOf(ls, op.x) ELSE 0
          i2 == IF p >= 1 /\ p <= i THEN i ELSE i + 1
          calls2 == Append(calls, [cb |-> c, arg |-> notifs, threw |-> op.k = "throw"])
          unreg2 == IF p >= 1 THEN unreg \cup {op.x} ELSE unreg
      IN IF op.k = "throw" /\ ~guarded
           THEN [listeners |-> ls2, calls |-> calls2, unreg |-> unreg2, ops |-> ops2]
           ELSE ForEach(ls2, i2, notifs, script, guarded, calls2, unreg2, ops2)

NotifyListenersNoCatch(ls, notifs, script, ops) ==
  ForEach(ls, 1, notifs, script, FALSE, <<>>, {}, ops)

\* notifyListeners
NotifyListeners(ls, notifs, script, ops) ==
  ForEach(ls, 1, notifs, script, TRUE, <<>>, {}, ops)

NoFan(ls, notifs, ops) ==
  [notifications |-> notifs, listeners |-> ls, ops |-> ops, fired |-> FALSE,
   calls |-> <<>>, unreg |-> {}]

Fanned(notifs, out) ==
  [notifications |-> notifs, listeners |-> out.listeners, ops |-> out.ops,
   fired |-> TRUE, calls |-> out.calls, unreg |-> out.unreg]

\* the callback without its success test
PollCallbackUnchecked(notifs, ls, ops, result, script) ==
  Fanned(result.data, NotifyListeners(ls, result.data, script, ops))

\* the callback fanning out before it replaces the cache
PollCallbackLate(notifs, ls, ops, result, script) ==
  IF result.success
    THEN Fanned(result.data, NotifyListeners(ls, notifs, script, ops))
    ELSE NoFan(ls, notifs, ops)

\* the callback merging the response into the cache
PollCallbackMerge(notifs, ls, ops, result, script) ==
  IF result.success
    THEN LET merged == IF notifs.t = "array" /\ result.data.t = "array"
                         THEN Arr(notifs.v \o result.data.v) ELSE result.data
         IN Fanned(merged, NotifyListeners(ls, merged, script, ops))
    ELSE NoFan(ls, notifs, ops)

\* the setInterval callback from the point where getNotifications() resolves
PollCallback(notifs, ls, ops, result, script) ==
  IF result.success
    THEN Fanned(result.data, NotifyListeners(ls, result.data, script, ops))
    ELSE NoFan(ls, notifs, ops)

(***************************************************************************)
(* The manager's operations                                                *)
(***************************************************************************)
\* what the backend may answer a poll with
PollResults == {Null, Arr(<<Plain>>), Obj(Arr(<<Plain, Flagged>>))}

\* the same, fewer, where the listeners act up
FanResults == {Arr(<<Plain>>), Obj(Arr(<<Plain, Flagged>>))}

NoOps == [c \in Callbacks |-> "none"]

\* setInterval hands out a handle that no active timer has
FreshTimer == CHOOSE n \in 1..MaxTimers : n \notin timers /\ \A m \in 1..(n - 1) : m \in timers

mgrInit ==
  /\ listeners = <<>>
  /\ notifications = Arr(<<>>)
  /\ isPolling = FALSE
  /\ pollingInterval = 0
  /\ timers = {}
  /\ inflight = <<>>
  /\ lastOp = NoOps
  /\ lastStart = "none"
  /\ arrived = <<>>
  /\ lastGood = Arr(<<>>)
  /\ fan = [calls |-> <<>>, unreg |-> {}]

\* startRealTime without its isPolling test
StartRealTimeUnguarded ==
  /\ Cardinality(timers) < MaxTimers
  /\ lastStart' = IF isPolling THEN "ignored" ELSE "scheduled"
  /\ isPolling' = TRUE
  /\ pollingInterval' = FreshTimer
  /\ timers' = timers \cup {FreshTimer}
  /\ UNCHANGED <<listeners, notifications, inflight, lastOp, arrived, lastGood,
                 fan, call, bulk>>

\* startRealTime()
StartRealTime ==
  /\ lastStart' = IF isPolling THEN "ignored" ELSE "scheduled"
  /\ IF isPolling
       THEN UNCHANGED <<isPolling, pollingInterval, timers>>
       ELSE /\ Cardinality(timers) < MaxTimers
            /\ isPolling' = TRUE
            /\ pollingInterval' = FreshTimer
            /\ timers' = timers \cup {FreshTimer}
  /\ UNCHANGED <<listeners, notifications, inflight, lastOp, arrived, lastGood,
                 fan, call, bulk>>

\* stopRealTime()
StopRealTime ==
  /\ IF pollingInterval # 0
       THEN /\ timers' = timers \ {pollingInterval}
            /\ pollingInterval' = 0
       ELSE UNCHANGED <<timers, pollingInterval>>
  /\ isPolling' = FALSE
  /\ UNCHANGED <<listeners, notifications, inflight, lastOp, lastStart, arrived,
                 lastGood, fan, call, bulk>>

\* addListener(c)
AddListener(c) ==
  /\ listeners' = SetAdd(listeners, c)
  /\ lastOp' = [lastOp EXCEPT ![c] = OpAfterAdd(listeners, c)]
  /\ UNCHANGED <<notifications, isPolling, pollingInterval, timers, inflight,
                 lastStart, arrived, lastGood, fan, call, bulk>>

\* a call of a function that addListener(c) returned
Unregister(c) ==
  /\ lastOp[c] # "none"
  /\ listeners' = SetDelete(listeners, c)
  /\ lastOp' = [lastOp EXCEPT ![c] = "remove"]
  /\ UNCHANGED <<notifications, isPolling, pollingInterval, timers, inflight,
                 lastStart, arrived, lastGood, fan, call, bulk>>

\* an active interval fires: the callback runs up to its await
Tick(t, cap) ==
  /\ t \in timers
  /\ Len(inflight) < cap
  /\ inflight' = Append(inflight, [stale |-> FALSE])
  /\ UNCHANGED <<listeners, notifications, isPolling, pollingInterval, timers,
                 lastOp, lastStart, arrived, lastGood, fan, call, bulk>>

\* the k-th pending poll leaves; on success the older ones are overtaken
Leave(q, k, success) ==
  Remove([i \in 1..Len(q) |-> IF success /\ i < k THEN [stale |-> TRUE] ELSE q[i]], k)

\* the k-th pending poll's getAll settles with outcome o and the callback resumes
Resume(k, o, script) ==
  LET result == getNotifications(o)
      out == PollCallback(notifications, listeners, lastOp, result, script)
  IN /\ notifications' = out.notifications
     /\ listeners' = out.listeners
     /\ lastOp' = out.ops
     /\ inflight' = Leave(inflight, k, result.success)
     /\ arrived' = <<[success |-> result.success, stale |-> inflight[k].stale]>>
     /\ lastGood' = IF result.success THEN result.data ELSE lastGood
     /\ fan' = IF out.fired THEN [calls |-> out.calls, unreg |-> out.unreg] ELSE fan
     /\ UNCHANGED <<isPolling, pollingInterval, timers, lastStart, call, bulk>>

FetchReturn(k, r, script) == Resume(k, ApiReturn(r), script)

\* no listener runs on this path, so what the listeners would do is left out
FetchThrow(k, m) == Resume(k, ApiThrow(m), Quiet)

restInit ==
  /\ call = <<>>
  /\ bulk = <<>>

Init == mgrInit /\ restInit

\* The polling side in full, with listeners that just return.
Next ==
  \/ StartRealTime
  \/ StopRealTime
  \/ \E c \in Callbacks : AddListener(c)
  \/ \E c \in Callbacks : Unregister(c)
  \/ \E t \in timers : Tick(t, MaxInflight)
  \/ \E k \in 1..Len(inflight), r \in PollResults : FetchReturn(k, r, Quiet)
  \/ \E k \in 1..Len(inflight), m \in Messages : FetchThrow(k, m)

Spec == Init /\ [][Next]_vars

\* The listener side in full: listeners that throw, register and unregister
\* during the fan-out, under a manager that is started and polls.  What a
\* fan-out does depends on the listener set and the listeners alone, so the
\* stop and failure paths, which Spec explores, are left out here.
FanNext ==
  \/ StartRealTime
  \/ \E c \in Callbacks : AddListener(c)
  \/ \E c \in Callbacks : Unregister(c)
  \/ \E t \in timers : Tick(t, FanInflight)
  \/ \E k \in 1..Len(inflight), r \in FanResults, s \in ScriptsFor(listeners) :
       FetchReturn(k, r, s)

FanSpec == Init /\ [][FanNext]_vars

(***************************************************************************)
(* The facade, one call at a time                                          *)
(***************************************************************************)
Kinds == {Welcome, Flagged, Plain}

Lists == {<<>>} \cup {<<n>> : n \in Kinds} \cup {<<n, m>> : n, m \in Kinds}

\* what the API client may return: nothing, a raw list, or an object with a
\* data property (a list or null)
ApiResults == {Null} \cup {Arr(l) : l \in Lists} \cup {Obj(Arr(l)) : l \in Lists} \cup {Obj(Null)}

ApiOutcomes == {ApiReturn(r) : r \in ApiResults} \cup {ApiThrow(m) : m \in Messages}

FacadeOps == {"getNotifications", "createNotification", "markNotificationAsRead",
              "markAllNotificationsAsRead", "deleteNotification",
              "getNotificationStats"}

Bool(b) == [t |-> "boolean", v |-> b]

Pending(op, o) == [op |-> op, outcome |-> o, done |-> FALSE, result |-> Undefined]

Called(op) == call # <<>> /\ call[1].op = op /\ ~call[1].done

Return(value) ==
  /\ call' = <<[call[1] EXCEPT !.done = TRUE, !.result = value]>>
  /\ UNCHANGED <<mgrVars, bulk>>

GetNotifications == Called("getNotifications") /\ Return(getNotifications(call[1].outcome))

CreateNotification ==
  Called("createNotification") /\ Return(createNotification(call[1].outcome))

MarkNotificationAsRead ==
  Called("markNotificationAsRead") /\ Return(markNotificationAsRead(call[1].outcome))

MarkAllNotificationsAsRead ==
  Called("markAllNotificationsAsRead")
    /\ Return(markAllNotificationsAsRead(call[1].outcome))

DeleteNotification ==
  Called("deleteNotification") /\ Return(deleteNotification(call[1].outcome))

GetNotificationStats ==
  Called("getNotificationStats") /\ Return(getNotificationStats(call[1].outcome))

CheckFirstTimeUser ==
  Called("checkFirstTimeUser") /\ Return(Bool(checkFirstTimeUser(call[1].outcome)))

FacadeInit ==
  /\ mgrInit
  /\ bulk = <<>>
  /\ call \in {<<Pending(op, o)>> : op \in FacadeOps \cup {"checkFirstTimeUser"},
                                    o \in ApiOutcomes}

FacadeNext ==
  \/ GetNotifications
  \/ CreateNotification
  \/ MarkNotificationAsRead
  \/ MarkAllNotificationsAsRead
  \/ DeleteNotification
  \/ GetNotificationStats
  \/ CheckFirstTimeUser

FacadeSpec == FacadeInit /\ [][FacadeNext]_vars

(***************************************************************************)
(* parseBulkEmails.  A string is a sequence of one-character strings.      *)
(***************************************************************************)
\* \s of the regular expressions, over the characters the inputs use
IsSpace(ch) == ch \in {" ", "\n", "\t"}

\* [,;\n\s]
IsDelimiter(ch) == ch \in {",", ";"} \/ IsSpace(ch)

\* String.prototype.toLowerCase, over the letters the inputs use
LowerChar(ch) ==
  CASE ch = "A" -> "a"
    [] ch = "C" -> "c"
    [] ch = "O" -> "o"
    [] ch = "X" -> "x"
    [] OTHER -> ch

ToLowerCase(str) == [i \in 1..Len(str) |-> LowerChar(str[i])]

\* String.prototype.trim
RECURSIVE Trim(_)
Trim(str) ==
  IF str = <<>> THEN str
  ELSE IF IsSpace(str[1]) THEN Trim(Tail(str))
  ELSE IF IsSpace(str[Len(str)]) THEN Trim(SubSeq(str, 1, Len(str) - 1))
  ELSE str

\* input.split(/[,;\n\s]+/): the pieces between the runs of delimiters, the
\* empty piece before a leading run and after a trailing run included
RECURSIVE SplitFrom(_, _, _, _)
SplitFrom(str, i, piece, pieces) ==
  IF i > Len(str) THEN Append(pieces, piece)
  ELSE IF IsDelimiter(str[i])
    THEN IF i > 1 /\ IsDelimiter(str[i - 1])
           THEN SplitFrom(str, i + 1, piece, pieces)
           ELSE SplitFrom(str, i + 1, <<>>, Append(pieces, piece))
  ELSE SplitFrom(str, i + 1, Append(piece, str[i]), pieces)

Split(str) == SplitFrom(str, 1, <<>>, <<>>)

\* .filter(email => email.length > 0)
RECURSIVE NonEmpty(_)
NonEmpty(seq) ==
  IF seq = <<>> THEN <<>>
  ELSE IF Len(seq[1]) > 0 THEN <<seq[1]>> \o NonEmpty(Tail(seq))
  ELSE NonEmpty(Tail(seq))

\* lines 488-491: split, trim and lower-case each piece, drop the empty ones
Tokenize(input) ==
  LET pieces == Split(input)
  IN NonEmpty([i \in 1..Len(pieces) |-> ToLowerCase(Trim(pieces[i]))])

\* isValidEmail: /^[^\s@]+@[^\s@]+\.[^\s@]+$/
isValidEmail(email) ==
  /\ \A i \in 1..Len(email) : ~IsSpace(email[i])
  /\ Cardinality({i \in 1..Len(email) : email[i] = "@"}) = 1
  /\ LET at == CHOOSE i \in 1..Len(email) : email[i] = "@"
     IN /\ at > 1
        /\ \E d \in (at + 2)..(Len(email) - 1) : email[d] = "."

\* email.split('@')[1]
AfterAt(email) ==
  LET at == CHOOSE i \in 1..Len(email) : email[i] = "@"
  IN SubSeq(email, at + 1, Len(email))

\* String.prototype.endsWith
EndsWith(str, suffix) ==
  /\ Len(suffix) <= Len(str)
  /\ SubSeq(str, Len(str) - Len(suffix) + 1, Len(str)) = suffix

\* isAllowedDomain
isAllowedDomain(email, allowedDomains) ==
  IF email = <<>> \/ ~isValidEmail(email) THEN FALSE
  ELSE IF Len(allowedDomains) = 0 THEN TRUE
  ELSE LET emailDomain == ToLowerCase(AfterAt(email))
       IN \E i \in 1..Len(allowedDomains) :
            \/ emailDomain = ToLowerCase(allowedDomains[i])
            \/ EndsWith(emailDomain, <<".">> \o ToLowerCase(allowedDomains[i]))

NoBuckets == [valid |-> <<>>, invalid |-> <<>>, duplicates |-> <<>>,
              domainRestricted |-> <<>>]

\* the forEach of lines 502-513 from the i-th email on; remember says
\* whether a valid email is added to seen
RECURSIVE Classify(_, _, _, _, _, _)
Classify(emails, i, allowedDomains, results, seen, remember) ==
  IF i > Len(emails) THEN results
  ELSE
    LET email == emails[i]
    IN IF ~isValidEmail(email)
         THEN Classify(emails, i + 1, allowedDomains,
                       [results EXCEPT !.invalid = Append(@, email)], seen, remember)
       ELSE IF email \in seen
         THEN Classify(emails, i + 1, allowedDomains,
                       [results EXCEPT !.duplicates = Append(@, email)], seen, remember)
       ELSE IF ~isAllowedDomain(email, allowedDomains) /\ Len(allowedDomains) > 0
         THEN Classify(emails, i + 1, allowedDomains,
                       [results EXCEPT !.domainRestricted = Append(@, email)],
                       seen, remember)
       ELSE Classify(emails, i + 1, allowedDomains,
                     [results EXCEPT !.valid = Append(@, email)],
                     IF remember THEN seen \cup {email} ELSE seen, remember)

\* parseBulkEmails without seen.add(email)
parseBulkEmailsForgetful(input, allowedDomains) ==
  IF input = <<>> THEN NoBuckets
  ELSE Classify(Tokenize(input), 1, allowedDomains, NoBuckets, {}, FALSE)

\* parseBulkEmails
parseBulkEmails(input, allowedDomains) ==
  IF input = <<>> THEN NoBuckets
  ELSE Classify(Tokenize(input), 1, allowedDomains, NoBuckets, {}, TRUE)

\* the tokens the inputs are pasted together from
Words == {<<"a", "@", "x", ".", "c", "o">>,
          <<"A", "@", "X", ".", "C", "O">>,
          <<"b", "@", "y", ".", "i", "o">>,
          <<"u", "@", "s", ".", "x", ".", "c", "o">>,
          <<"b", "a", "d">>,
          <<"a", "@", "b">>}

\* the runs of delimiters between them
Separators == {<<",">>, <<";", " ">>, <<"\n">>}

RECURSIVE Join(_, _)
Join(words, sep) ==
  IF words = <<>> THEN <<>>
  ELSE IF Len(words) = 1 THEN words[1]
  ELSE words[1] \o sep \o Join(Tail(words), sep)

\* up to MaxTokens words with one separator between them, as they are or
\* with a separator in front and a blank behind
BulkInputs ==
  UNION {UNION {{Join(w, sep), sep \o Join(w, sep) \o <<" ">>} :
                  w \in [1..n -> Words], sep \in Separators} : n \in 0..MaxTokens}

AllowLists == {<<>>,
               <<<<"x", ".", "c", "o">>>>,
               <<<<"Y", ".", "I", "O">>, <<"z", ".", "c", "o">>>>}

ParseBulkEmails ==
  /\ bulk # <<>>
  /\ ~bulk[1].done
  /\ bulk' = <<[bulk[1] EXCEPT !.done = TRUE,
                               !.result = parseBulkEmails(bulk[1].input, bulk[1].allowed)]>>
  /\ UNCHANGED <<mgrVars, call>>

BulkInit ==
  /\ mgrInit
  /\ call = <<>>
  /\ bulk \in {<<[input |-> in, allowed |-> al, done |-> FALSE, result |-> NoBuckets]>> :
                 in \in BulkInputs, al \in AllowLists}

BulkNext == ParseBulkEmails

BulkSpec == BulkInit /\ [][BulkNext]_vars

(***************************************************************************)
(* Steps and logs the properties speak of                                  *)
(***************************************************************************)
\* a pending poll's response reached the callback in this step
PollStep == Len(inflight') < Len(inflight)

\* ... and getNotifications() reported success / failure
GoodStep == PollStep /\ arrived'[1].success
FailStep == PollStep /\ ~arrived'[1].success

Invoked(calls) == {calls[i].cb : i \in 1..Len(calls)}

Times(calls, c) == Cardinality({i \in 1..Len(calls) : calls[i].cb = c})

Registered(ops) == {c \in Callbacks : ops[c] \in {"add", "readd"}}

(***************************************************************************)
(* C1: once stopRealTime() has been called, no listener is invoked until   *)
(* startRealTime() is called again, also when a poll that was started      *)
(* before the stop completes after it.                                     *)
(***************************************************************************)
C1_NoListenerWhileStopped ==
  [][(~isPolling /\ GoodStep) => fan'.calls = <<>>]_vars

\* the active timers are the one in pollingInterval while polling, else none
C2_Scheduled ==
  /\ isPolling <=> pollingInterval # 0
  /\ timers = IF isPolling THEN {pollingInterval} ELSE {}
  /\ Cardinality(timers) <= 1

\* a startRealTime() call that found the manager polling changed nothing
C2_StartWhilePolling ==
  (isPolling /\ lastStart' = "ignored" /\ lastStart # "ignored")
    => UNCHANGED <<listeners, notifications, isPolling, pollingInterval, timers,
                   inflight, lastOp, arrived, lastGood, fan>>

(***************************************************************************)
(* C2: at most one recurring poll action is scheduled, exactly one iff the *)
(* manager is polling (isPolling iff pollingInterval is set), and          *)
(* startRealTime() while polling schedules nothing and changes no state.   *)
(***************************************************************************)
C2_OneRecurringAction == []C2_Scheduled /\ [][C2_StartWhilePolling]_vars

\* startRealTime() was called on a polling manager, which still has its one timer
C2_Witness ==
  /\ lastStart = "ignored"
  /\ isPolling
  /\ timers = {pollingInterval}

(***************************************************************************)
(* C4: a poll whose fetch fails leaves the cached sequence unchanged,      *)
(* invokes no listener and leaves the manager polling as it was.           *)
(***************************************************************************)
C4_FailedPollChangesNothing ==
  [][FailStep => UNCHANGED <<notifications, fan, listeners, lastOp, isPolling,
                             pollingInterval, timers>>]_vars

\* the last response was a failure, the manager polls and still holds the
\* sequence of an earlier successful poll
C4_Witness ==
  /\ arrived # <<>>
  /\ ~arrived[1].success
  /\ isPolling
  /\ timers # {}
  /\ notifications # Arr(<<>>)
  /\ fan.calls # <<>>

(***************************************************************************)
(* C9: the cache is always the data of the successful response that        *)
(* arrived last (or the initial empty sequence), whichever tick issued it: *)
(* never a mixture of responses.                                           *)
(***************************************************************************)
C9_LastWriteWins == notifications = lastGood

\* the response applied last belongs to a poll that a later poll's response
\* had overtaken, and nothing is pending any more
C9_Witness ==
  /\ arrived # <<>>
  /\ arrived[1].success
  /\ arrived[1].stale
  /\ inflight = <<>>
  /\ notifications = lastGood
  /\ notifications # Arr(<<>>)

(***************************************************************************)
(* C3: on a successful poll the cache is replaced by the fetched sequence  *)
(* and then every listener registered at the start of the fan-out is       *)
(* invoked exactly once with the new sequence, even when listeners         *)
(* register or unregister listeners during the fan-out.                    *)
(***************************************************************************)
C3_EveryListenerOnce ==
  [][GoodStep =>
       /\ notifications' = lastGood'
       /\ \A c \in Range(listeners) : Times(fan'.calls, c) = 1
       /\ \A i \in 1..Len(fan'.calls) : fan'.calls[i].arg = notifications']_vars

\* C3 as amended: ... every listener registered at the start of the fan-out
\* and not unregistered while it runs is invoked exactly once, and every
\* invocation gets the new sequence.
C3_ListenersNotUnregisteredOnce ==
  [][GoodStep =>
       /\ notifications' = lastGood'
       /\ \A c \in Range(listeners) \ fan'.unreg : Times(fan'.calls, c) = 1
       /\ \A i \in 1..Len(fan'.calls) : fan'.calls[i].arg = notifications']_vars

\* a fan-out during which a listener was unregistered and another, which
\* stayed registered, was invoked once with the cached sequence
C3_Witness ==
  /\ fan.unreg # {}
  /\ \E c \in Callbacks \ fan.unreg :
       /\ Times(fan.calls, c) = 1
       /\ \A i \in 1..Len(fan.calls) : fan.calls[i].arg = notifications
  /\ notifications # Arr(<<>>)

(***************************************************************************)
(* C7: in the fan-out of a successful poll a listener that throws keeps no *)
(* other registered listener from being invoked with the new sequence, and *)
(* the manager stays polling with its timer.                               *)
(***************************************************************************)
C7_ThrowIsolated ==
  [][(GoodStep /\ \E i \in 1..Len(fan'.calls) : fan'.calls[i].threw) =>
       /\ \A c \in Range(listeners) \ fan'.unreg :
            \E i \in 1..Len(fan'.calls) :
              fan'.calls[i].cb = c /\ fan'.calls[i].arg = notifications'
       /\ UNCHANGED <<isPolling, pollingInterval, timers>>]_vars

\* a listener threw and a listener after it was invoked all the same, and
\* the manager still polls
C7_Witness ==
  /\ \E i, j \in 1..Len(fan.calls) : i < j /\ fan.calls[i].threw
  /\ isPolling
  /\ timers = {pollingInterval}

\* the set holds the callbacks whose last operation was addListener, once each
C8_SetOfListeners ==
  /\ Range(listeners) = Registered(lastOp)
  /\ Len(listeners) = Cardinality(Range(listeners))

\* a poll whose listeners leave the registrations as they are invokes those
\* callbacks once each and no other
C8_PollOverRegistered ==
  (GoodStep /\ listeners' = listeners /\ lastOp' = lastOp /\ fan'.unreg = {})
    => \A c \in Callbacks :
         Times(fan'.calls, c) = IF c \in Registered(lastOp) THEN 1 ELSE 0

(***************************************************************************)
(* C8: after any sequence of addListener(cb) calls and calls of the        *)
(* unregister functions they returned, a successful poll invokes exactly   *)
(* the callbacks whose most recent operation was addListener, each once,   *)
(* however often it was added; one unregister call removes it entirely.    *)
(***************************************************************************)
C8_InvokedAreRegistered == []C8_SetOfListeners /\ [][C8_PollOverRegistered]_vars

\* one callback was added again while registered, the other was
\* unregistered, and the poll invoked the first once and the second not
C8_Witness ==
  /\ \E c, d \in Callbacks :
       /\ lastOp[c] = "readd"
       /\ lastOp[d] = "remove"
       /\ listeners = <<c>>
       /\ fan.unreg = {}
       /\ Len(fan.calls) = 1
       /\ fan.calls[1].cb = c

(***************************************************************************)
(* C5: checkFirstTimeUser() returns false whenever its fetch fails; it     *)
(* returns true only when the fetch succeeded and the result is empty or   *)
(* holds no welcome notification.                                          *)
(***************************************************************************)
C5_FailClosed ==
  (call # <<>> /\ call[1].op = "checkFirstTimeUser" /\ call[1].done) =>
     /\ call[1].outcome.kind = "throw" => call[1].result = Bool(FALSE)
     /\ call[1].result = Bool(TRUE) =>
          /\ call[1].outcome.kind = "return"
          /\ LET data == getNotifications(call[1].outcome).data
             IN data.t = "array" /\ \A i \in 1..Len(data.v) : ~IsWelcome(data.v[i])

(***************************************************************************)
(* C6: when the API client throws an error with a message, every facade    *)
(* operation returns (does not throw) an envelope with success = false,    *)
(* error = that message, and data an empty sequence or object.             *)
(***************************************************************************)
C6_FailureEnvelope ==
  (call # <<>> /\ call[1].op \in FacadeOps /\ call[1].done
     /\ call[1].outcome.kind = "throw") =>
     /\ call[1].result.success = FALSE
     /\ call[1].result.error = call[1].outcome.message
     /\ call[1].result.data.t \in {"array", "object"}

Count(seq, e) == Cardinality({i \in 1..Len(seq) : seq[i] = e})

Buckets(r) == <<r.valid, r.invalid, r.duplicates, r.domainRestricted>>

\* every occurrence of a token is in exactly one bucket, and nothing else is
OccurrencesPartitioned(tokens, r) ==
  /\ \A e \in Range(tokens) :
       Count(r.valid, e) + Count(r.invalid, e) + Count(r.duplicates, e)
         + Count(r.domainRestricted, e) = Count(tokens, e)
  /\ \A b \in 1..4 : Range(Buckets(r)[b]) \subseteq Range(tokens)

(***************************************************************************)
(* C10: the four buckets of parseBulkEmails are pairwise disjoint and      *)
(* partition the trimmed, lower-cased, non-empty tokens: every token lands *)
(* in exactly one bucket and no email string appears in two buckets.       *)
(***************************************************************************)
C10_BucketsDisjoint ==
  (bulk # <<>> /\ bulk[1].done) =>
     LET r == bulk[1].result
     IN /\ OccurrencesPartitioned(Tokenize(bulk[1].input), r)
        /\ \A a, b \in 1..4 :
             a # b => Range(Buckets(r)[a]) \cap Range(Buckets(r)[b]) = {}

\* C10 as amended: every occurrence of a token lands in exactly one bucket;
\* valid, invalid and domainRestricted are pairwise disjoint and valid holds
\* no string twice; every string in duplicates is also in valid (and in no
\* other bucket).
C10_OccurrencesPartitioned ==
  (bulk # <<>> /\ bulk[1].done) =>
     LET r == bulk[1].result
     IN /\ OccurrencesPartitioned(Tokenize(bulk[1].input), r)
        /\ Range(r.valid) \cap Range(r.invalid) = {}
        /\ Range(r.valid) \cap Range(r.domainRestricted) = {}
        /\ Range(r.invalid) \cap Range(r.domainRestricted) = {}
        /\ Len(r.valid) = Cardinality(Range(r.valid))
        /\ Range(r.duplicates) \subseteq Range(r.valid)

\* an input with a repeated valid email and a restricted one was parsed
C10_Witness ==
  /\ bulk # <<>>
  /\ bulk[1].done
  /\ bulk[1].result.duplicates # <<>>
  /\ bulk[1].result.domainRestricted # <<>>
  /\ bulk[1].result.valid # <<>>

====
